---- MODULE Spec2Model ----
(***************************************************************************)
(* Model of the PDF/image -> HTML converter (src/pdf转html.py): the file   *)
(* system the converter writes, the batch drivers convert_all and          *)
(* convert_all_images, and the client-side script of the generated viewers.*)
(*                                                                         *)
(* A file name is a sequence of tokens: a token is either the dot "." or a *)
(* dot-free run of characters, so "a.pdf" is <<"a", ".", "pdf">>.  A path  *)
(* is a sequence of file names.  The source folders are read from the      *)
(* environment at each access (listing, existence, content); the output    *)
(* folders are the variable fs.                                            *)
(***************************************************************************)
EXTENDS Integers, Sequences, FiniteSets, TLC

\* ------------------------------------------------------------ bounds

\* Largest page count of a source PDF.
MaxPages == 2
\* Largest number of directory entries one listing of a source folder returns.
MaxFiles == 2
\* Number of batch-driver runs in one behaviour.
MaxRuns == 2
\* Largest page count the viewer is generated for.
MaxTotalPages == 3
\* The largest page number whose file name is compared.
MaxPageNumber == 1100
\* The longest feature list drawn, and the longest one taken with every
\* combination of names and geometries.
MaxFeatures == 24
MaxShort == 3

\* ------------------------------------------------------------ file names

Dot == "."

\* str.lower() on one token.
LowerTok(t) ==
    CASE t = "PDF" -> "pdf"
      [] t = "PNG" -> "png"
      [] t = "JPG" -> "jpg"
      [] OTHER -> t

Lower(s) == [i \in 1..Len(s) |-> LowerTok(s[i])]

\* Index of the last dot of a name, 0 when it has none (str.rfind).
LastDot(s) ==
    LET dots == {i \in 1..Len(s) : s[i] = Dot}
    IN  IF dots = {} THEN 0 ELSE CHOOSE i \in dots : \A j \in dots : j <= i

\* os.path.splitext: split at the last dot unless only dots precede it.
splitext(s) ==
    LET d == LastDot(s)
    IN  IF d > 0 /\ \E j \in 1..(d - 1) : s[j] # Dot
        THEN <<SubSeq(s, 1, d - 1), SubSeq(s, d, Len(s))>>
        ELSE <<s, <<>>>>

\* f.endswith('.pdf')
EndsWithPdf(s) == Len(s) >= 2 /\ s[Len(s) - 1] = Dot /\ s[Len(s)] = "pdf"

\* self.supported_image_formats
supported_image_formats ==
    { <<Dot, "jpg">>, <<Dot, "jpeg">>, <<Dot, "png">>, <<Dot, "gif">>,
      <<Dot, "bmp">>, <<Dot, "svg">> }

\* Decimal digits of a natural number, most significant first (str(k)).
RECURSIVE Digits(_)
Digits(k) == IF k < 10 THEN <<k>> ELSE Digits(k \div 10) \o <<k % 10>>

\* Zeros to the left up to the given width (the 0w of a format spec).
RECURSIVE ZeroPad(_, _)
ZeroPad(ds, width) == IF Len(ds) >= width THEN ds ELSE ZeroPad(<<0>> \o ds, width)

DigitTok(d) ==
    CASE d = 0 -> "0" [] d = 1 -> "1" [] d = 2 -> "2" [] d = 3 -> "3"
      [] d = 4 -> "4" [] d = 5 -> "5" [] d = 6 -> "6" [] d = 7 -> "7"
      [] d = 8 -> "8" [] d = 9 -> "9"

\* The width of the page number in f"page_{page_num + 1:03d}.png".
PageNameWidth == 3

\* f"page_{page_num + 1:03d}.png", given page_num + 1.
PageFileName(index) ==
    LET ds == ZeroPad(Digits(index), PageNameWidth)
    IN  <<"page_">> \o [i \in 1..Len(ds) |-> DigitTok(ds[i])] \o <<Dot, "png">>

\* The configured folders (PDFToHTMLConverter(...) in main) and fixed names.
output_folder == <<"pdf_html">>
image_output_folder == <<"image_html">>
ImagesName == <<"images">>
IndexHtml == <<"index", Dot, "html">>
MetadataJson == <<"metadata", Dot, "json">>
Dpi == 200

\* ------------------------------------------------------------ file system

DirNode == [type |-> "dir", data |-> <<>>, mtime |-> 0]
FileNode(data, now) == [type |-> "file", data |-> <<data>>, mtime |-> now]

Exists(f, p) == p \in DOMAIN f
IsDir(f, p) == Exists(f, p) /\ f[p].type = "dir"
IsFile(f, p) == Exists(f, p) /\ f[p].type = "file"

Prefixes(p) == {SubSeq(p, 1, i) : i \in 1..Len(p)}
Parent(p) == SubSeq(p, 1, Len(p) - 1)

\* f with node n at path p (added or replaced).
Put(f, p, n) == [q \in DOMAIN f \cup {p} |-> IF q = p THEN n ELSE f[q]]

\* os.makedirs(p, exist_ok=True): every missing prefix of p becomes a
\* directory; raises when p or one of its prefixes is an existing non-directory.
makedirs(f, p) ==
    IF \E q \in Prefixes(p) : IsFile(f, q)
    THEN [fs |-> f, raised |-> TRUE]
    ELSE [fs |-> [q \in DOMAIN f \cup Prefixes(p) |->
                    IF q \in DOMAIN f THEN f[q] ELSE DirNode],
          raised |-> FALSE]

\* open(p, "w") + write, img.save(p), shutil.copy2(src, p): the file at p is
\* created or truncated and gets the data; raises when p is a directory or
\* its parent is not one.
WriteFile(f, p, data, now) ==
    IF IsDir(f, p) \/ ~IsDir(f, Parent(p))
    THEN [fs |-> f, raised |-> TRUE]
    ELSE [fs |-> Put(f, p, FileNode(data, now)), raised |-> FALSE]

\* The files directly inside directory d.
FilesIn(f, d) == {p \in DOMAIN f : Len(p) = Len(d) + 1 /\ Parent(p) = d /\ f[p].type = "file"}

\* Everything below d, d excluded.
Below(f, d) == {p \in DOMAIN f : Len(p) > Len(d) /\ SubSeq(p, 1, Len(d)) = d}

\* ------------------------------------------------------------ sources

\* The distinct contents a source file can have.
PdfContents == {"v1"}
ImageContents == {"v1", "v2"}

\* What the environment holds under a source path when the converter reads
\* it: nothing (the name was listed but does not resolve: removed since, or
\* a dangling link), something that cannot be opened as a document, a PDF
\* of n pages whose page number corrupt (0: none) fails to render, or an
\* image file.
Source(kind, id, n, corrupt) == [kind |-> kind, id |-> id, n |-> n, corrupt |-> corrupt]
MissingSource == Source("missing", "", 0, 0)
UnreadableSource == Source("unreadable", "", 0, 0)
PdfSources ==
    {MissingSource, UnreadableSource}
    \cup UNION { {Source("pdf", d, n, c) : d \in PdfContents, c \in 0..n} : n \in 0..MaxPages }
ImageSources ==
    {MissingSource, UnreadableSource} \cup {Source("image", d, 0, 0) : d \in ImageContents}

\* os.path.exists(source path)
SourceExists(src) == src.kind # "missing"

\* Mutant: the pages of the document taken from its end.
PagePngReversed(src, page_num) == <<"png", src.id, src.n - 1 - page_num>>

\* pix.tobytes("png") of pdf_document[page_num]: the rendering of that page.
PagePng(src, page_num) == <<"png", src.id, page_num>>

\* The bytes of an image source file.
ImageBytes(src) == <<"bytes", src.id>>

\* The entries the source folders can hold.
PdfFolderNames ==
    { <<"a", Dot, "pdf">>, <<"b", Dot, "pdf">>, <<"c", Dot, "PDF">>, <<"n", Dot, "txt">> }
ImageFolderNames ==
    { <<"a", Dot, "png">>, <<"a", Dot, "jpg">>, <<"b", Dot, "PNG">>,
      <<"d", Dot, "png">>, <<"n", Dot, "txt">> }
\* The one entry of the image folder that is a directory, not a file.
IsFileEntry(name) == name # <<"d", Dot, "png">>

\* os.listdir: the entries in arbitrary order, each once.
Listings(names) ==
    UNION { {s \in [1..k -> names] : \A i, j \in 1..k : i # j => s[i] # s[j]} : k \in 0..MaxFiles }

\* ------------------------------------------------------------ PDF conversion

\* Mutant: the page files numbered from 0, as range(page_count) counts.
PageIndexFromZero(page_num) == page_num

\* page_num + 1 of f"page_{page_num + 1:03d}.png"
PageIndex(page_num) == page_num + 1

\* The loop of convert_pdf_to_images from page_num on.
RECURSIVE RenderPages(_, _, _, _, _, _)
RenderPages(f, src, images_dir, page_num, now, written) ==
    IF page_num >= src.n
    THEN [fs |-> f, raised |-> FALSE, written |-> written]
    ELSE IF src.corrupt = page_num + 1
    THEN [fs |-> f, raised |-> TRUE, written |-> written]
    ELSE LET img_path == images_dir \o <<PageFileName(PageIndex(page_num))>>
             w == WriteFile(f, img_path, PagePng(src, page_num), now)
         IN  IF w.raised
             THEN [fs |-> w.fs, raised |-> TRUE, written |-> written]
             ELSE RenderPages(w.fs, src, images_dir, page_num + 1, now,
                              Append(written, img_path))

\* Mutant: a failed rendering removes the page images it had written.
convert_pdf_to_images_rollback(f, src, output_dir, now) ==
    LET images_dir == output_dir \o <<ImagesName>>
        m == makedirs(f, images_dir)
    IN  IF m.raised \/ src.kind # "pdf"
        THEN [fs |-> m.fs, raised |-> TRUE, ret |-> 0, written |-> <<>>]
        ELSE LET r == RenderPages(m.fs, src, images_dir, 0, now, <<>>)
             IN  IF r.raised
                 THEN [fs |-> m.fs, raised |-> TRUE, ret |-> 0, written |-> <<>>]
                 ELSE [fs |-> r.fs, raised |-> FALSE, ret |-> src.n, written |-> r.written]

\* convert_pdf_to_images(pdf_path, output_dir): ret is the returned
\* page_count (0 when it raised), written the files written, in order.
convert_pdf_to_images(f, src, output_dir, now) ==
    LET images_dir == output_dir \o <<ImagesName>>
        m == makedirs(f, images_dir)
    IN  IF m.raised \/ src.kind # "pdf"
        THEN [fs |-> m.fs, raised |-> TRUE, ret |-> 0, written |-> <<>>]
        ELSE LET r == RenderPages(m.fs, src, images_dir, 0, now, <<>>)
             IN  [fs |-> r.fs, raised |-> r.raised,
                  ret |-> IF r.raised THEN 0 ELSE src.n, written |-> r.written]

\* get_html_template(title, page_count, pdf_filename): the template with its
\* three substitutions.
get_html_template(title, page_count, pdf_filename) ==
    [title |-> title, page_count |-> page_count, pdf_filename |-> pdf_filename]

\* generate_html(output_dir, title, page_count, pdf_filename)
generate_html(f, output_dir, title, page_count, pdf_filename, now) ==
    WriteFile(f, output_dir \o <<IndexHtml>>,
              get_html_template(title, page_count, pdf_filename), now)

\* Mutant: the record titled with the file name, extension included.
save_metadata_titled_by_filename(f, output_dir, title, page_count, pdf_filename, now) ==
    WriteFile(f, output_dir \o <<MetadataJson>>,
              [title |-> pdf_filename, page_count |-> page_count,
               pdf_filename |-> pdf_filename, dpi |-> Dpi], now)

\* save_metadata(output_dir, title, page_count, pdf_filename)
save_metadata(f, output_dir, title, page_count, pdf_filename, now) ==
    WriteFile(f, output_dir \o <<MetadataJson>>,
              [title |-> title, page_count |-> page_count,
               pdf_filename |-> pdf_filename, dpi |-> Dpi], now)

\* The result of one convert_single_* call: the file system after it, what
\* it returned (FALSE when it raised), whether an exception left it, the
\* files it wrote in order, the bundle directory it worked on (<<>> when
\* it returned before computing one), the last message it printed
\* ("not_found", "failed", "ok", or "" when it raised) and the page_count
\* convert_pdf_to_images returned to it (-1 when that did not return).
Outcome(f, ret, raised, written, output_dir, msg, page_count) ==
    [fs |-> f, ret |-> ret, raised |-> raised, written |-> written,
     output_dir |-> output_dir, msg |-> msg, page_count |-> page_count]

\* Mutant: the bundle directory named after the whole file name.
PdfBundleDirKeepExt(pdf_filename) == output_folder \o <<pdf_filename>>

\* The bundle directory of a PDF: output_folder / name without extension.
PdfBundleDir(pdf_filename) == output_folder \o <<splitext(pdf_filename)[1]>>

\* convert_single_pdf(pdf_filename) once the source is known to exist.
ConvertExistingPdf(f, pdf_filename, src, now) ==
    LET doc_name == splitext(pdf_filename)[1]
        output_dir == PdfBundleDir(pdf_filename)
        m == makedirs(f, output_dir)
    IN  IF m.raised THEN Outcome(m.fs, FALSE, TRUE, <<>>, output_dir, "", 0 - 1)
        ELSE
        LET c == convert_pdf_to_images(m.fs, src, output_dir, now)
        IN  IF c.raised
            THEN Outcome(c.fs, FALSE, FALSE, c.written, output_dir, "failed", 0 - 1)
            ELSE
            LET h == generate_html(c.fs, output_dir, doc_name, c.ret, pdf_filename, now)
            IN  IF h.raised
                THEN Outcome(h.fs, FALSE, FALSE, c.written, output_dir, "failed", c.ret)
                ELSE
                LET s == save_metadata(h.fs, output_dir, doc_name, c.ret, pdf_filename, now)
                    wh == Append(c.written, output_dir \o <<IndexHtml>>)
                IN  IF s.raised
                    THEN Outcome(s.fs, FALSE, FALSE, wh, output_dir, "failed", c.ret)
                    ELSE Outcome(s.fs, TRUE, FALSE,
                                 Append(wh, output_dir \o <<MetadataJson>>),
                                 output_dir, "ok", c.ret)

\* Mutant: the bundle directory created before the source is looked for.
convert_single_pdf_mkdir_first(f, pdf_filename, src, now) ==
    IF ~SourceExists(src)
    THEN Outcome(makedirs(f, PdfBundleDir(pdf_filename)).fs, FALSE, FALSE, <<>>, <<>>,
                 "not_found", 0 - 1)
    ELSE ConvertExistingPdf(f, pdf_filename, src, now)

\* convert_single_pdf(pdf_filename)
convert_single_pdf(f, pdf_filename, src, now) ==
    IF ~SourceExists(src)
    THEN Outcome(f, FALSE, FALSE, <<>>, <<>>, "not_found", 0 - 1)
    ELSE ConvertExistingPdf(f, pdf_filename, src, now)

\* ------------------------------------------------------------ image conversion

\* copy_image_to_output(source_path, dest_dir)
copy_image_to_output(f, image_filename, src, dest_dir, now) ==
    LET images_dir == dest_dir \o <<ImagesName>>
        m == makedirs(f, images_dir)
        dest_path == images_dir \o <<image_filename>>
    IN  IF m.raised \/ src.kind # "image"
        THEN [fs |-> m.fs, raised |-> TRUE, dest_path |-> dest_path]
        ELSE LET w == WriteFile(m.fs, dest_path, ImageBytes(src), now)
             IN  [fs |-> w.fs, raised |-> w.raised, dest_path |-> dest_path]

\* The bundle directory of an image: image_output_folder / name without extension.
ImageBundleDir(image_filename) == image_output_folder \o <<splitext(image_filename)[1]>>

\* convert_single_image(image_filename)
convert_single_image(f, image_filename, src, now) ==
    IF ~SourceExists(src) THEN Outcome(f, FALSE, FALSE, <<>>, <<>>, "not_found", 0 - 1)
    ELSE
    LET image_name == splitext(image_filename)[1]
        output_dir == ImageBundleDir(image_filename)
        m == makedirs(f, output_dir)
    IN  IF m.raised THEN Outcome(m.fs, FALSE, TRUE, <<>>, output_dir, "", 0 - 1)
        ELSE
        LET c == copy_image_to_output(m.fs, image_filename, src, output_dir, now)
        IN  IF c.raised THEN Outcome(c.fs, FALSE, FALSE, <<>>, output_dir, "failed", 0 - 1)
            ELSE
            LET h == WriteFile(c.fs, output_dir \o <<IndexHtml>>,
                               [title |-> image_name, image_filename |-> image_filename], now)
                wc == <<c.dest_path>>
            IN  IF h.raised THEN Outcome(h.fs, FALSE, FALSE, wc, output_dir, "failed", 0 - 1)
                ELSE
                LET s == WriteFile(h.fs, output_dir \o <<MetadataJson>>,
                                   [title |-> image_name, type |-> "image",
                                    image_filename |-> image_filename,
                                    format |-> splitext(image_filename)[2]], now)
                    wh == Append(wc, output_dir \o <<IndexHtml>>)
                IN  IF s.raised
                    THEN Outcome(s.fs, FALSE, FALSE, wh, output_dir, "failed", 0 - 1)
                    ELSE Outcome(s.fs, TRUE, FALSE,
                                 Append(wh, output_dir \o <<MetadataJson>>),
                                 output_dir, "ok", 0 - 1)

\* ------------------------------------------------------------ state

VARIABLES
    fs,             \* the output folders: path -> node
    pc,             \* "idle", or the loop a batch driver is in
    listed,         \* entries os.listdir returned in this run, -1: no folder
    files,          \* pdf_files / image_files of the current or last run
    idx,            \* position of the driver's loop in files (1-based)
    success_count,  \* success_count of the running driver
    attempts,       \* the convert_single_* calls of the current or last run
    report,         \* what the last finished run printed at its end
    last,           \* the last convert_single_* call and its outcome
    runs,           \* number of driver runs started (the time of file mtimes)
    driver,         \* the batch driver this behaviour runs
    viewer,         \* which generated page is open: "pdf" or "image"
    loaded,         \* whether DOMContentLoaded has fired
    totalPages,     \* const totalPages = {page_count}
    currentPage,    \* let currentPage
    zoomLevel,      \* let zoomLevel, in tenths
    requested,      \* the argument of the last loadPage call
    pending,        \* the pages whose Image() has neither loaded nor failed yet
    shown,          \* the page whose image is pageImage.src
    page,           \* a page number k, rendered and then requested
    img_path,       \* where the rasterizer wrote page k, relative to the bundle
    imagePath,      \* the imagePath of loadPage(k), relative to the bundle
    tree,           \* the archiving script's current directory: path -> "file" or "dir"
    arc_pc,         \* where the archiving script is
    deleted_count,  \* what delete_old_archives returned
    failed,         \* the files whose os.remove raised
    archive_name,   \* archive_name of create_archive
    zip_names,      \* the arcnames written to the archive
    map_pc,         \* where the map script is
    path_idx,       \* position of its loop in output_paths (1-based)
    fetches,        \* the outcomes of the requests.get calls so far
    maps,           \* the image files at the output paths: path -> content
    map_success_count,  \* success_count of the map script
    map_report,     \* what the map script printed at its end
    features,       \* geojson_data['features'] of the map being drawn
    draw_pc,        \* where the drawing loop is
    feat_idx,       \* position of the drawing loop in features (1-based)
    color_index,    \* color_index of create_clean_sichuan_map
    city_count,     \* city_count of create_clean_sichuan_map
    fills           \* the ax.fill calls so far

convVars == <<fs, pc, listed, files, idx, success_count, attempts, report, last, runs, driver>>
viewVars == <<viewer, loaded, totalPages, currentPage, zoomLevel, requested, pending, shown>>
nameVars == <<page, img_path, imagePath>>
arcVars == <<tree, arc_pc, deleted_count, failed, archive_name, zip_names>>
mapVars == <<map_pc, path_idx, fetches, maps, map_success_count, map_report>>
drawVars == <<features, draw_pc, feat_idx, color_index, city_count, fills>>
otherVars == <<nameVars, arcVars, mapVars, drawVars>>
vars == <<fs, pc, listed, files, idx, success_count, attempts, report, last, runs, driver,
          viewer, loaded, totalPages, currentPage, zoomLevel, requested, pending, shown,
          page, img_path, imagePath,
          tree, arc_pc, deleted_count, failed, archive_name, zip_names,
          map_pc, path_idx, fetches, maps, map_success_count, map_report,
          features, draw_pc, feat_idx, color_index, city_count, fills>>

\* ------------------------------------------------------------ batch drivers

EmptyFs == [p \in {} |-> DirNode]

\* Output folders that already hold a regular file named b each: the
\* path of the bundle of b.pdf, b.png, ... is taken by a non-directory.
\* The output folders themselves are absent or directories.
StrayFs ==
    LET f == makedirs(makedirs(EmptyFs, output_folder).fs, image_output_folder).fs
    IN  Put(Put(f, output_folder \o <<(<<"b">>)>>, FileNode("stray", 0)),
            image_output_folder \o <<(<<"b">>)>>, FileNode("stray", 0))

Report(kind, success, total) == [kind |-> kind, success |-> success, total |-> total]

Call(d, name, src, out, now) ==
    [driver |-> d, name |-> name, src |-> src, ret |-> out.ret,
     raised |-> out.raised, written |-> out.written, output_dir |-> out.output_dir,
     msg |-> out.msg, page_count |-> out.page_count, now |-> now]

NoCall ==
    [driver |-> "none", name |-> <<>>, src |-> MissingSource, ret |-> FALSE,
     raised |-> FALSE, written |-> <<>>, output_dir |-> <<>>, msg |-> "",
     page_count |-> 0 - 1, now |-> 0]

Attempt(name, out) ==
    [name |-> name, ret |-> out.ret, raised |-> out.raised,
     output_dir |-> out.output_dir, written |-> out.written]

\* The test of the image list comprehension of convert_all_images.
IsImageFile(f) == IsFileEntry(f) /\ Lower(splitext(f)[2]) \in supported_image_formats

\* Mutant: no early return when nothing was enumerated.
EnumeratedNoEmptyCheck(f, all_files, eligible) ==
    /\ fs' = f
    /\ listed' = Len(all_files)
    /\ files' = eligible
    /\ attempts' = <<>>
    /\ runs' = runs + 1
    /\ idx' = 1
    /\ success_count' = 0
    /\ pc' = driver /\ report' = Report("running", 0, Len(eligible))
    /\ UNCHANGED <<last, driver>>

\* A driver starts its loop over the enumerated files, or reports that
\* there are none and returns.
Enumerated(f, all_files, eligible) ==
    /\ fs' = f
    /\ listed' = Len(all_files)
    /\ files' = eligible
    /\ attempts' = <<>>
    /\ runs' = runs + 1
    /\ idx' = 1
    /\ success_count' = 0
    /\ IF eligible = <<>>
       THEN pc' = "idle" /\ report' = Report("no_files", 0, 0)
       ELSE pc' = driver /\ report' = Report("running", 0, Len(eligible))
    /\ UNCHANGED <<last, driver>>

\* An exception leaves the driver.
Escaped(f) ==
    /\ fs' = f
    /\ pc' = "idle"
    /\ report' = Report("raised", success_count, Len(files))

\* convert_all up to its loop: the output folder is created, the PDF folder
\* listed and filtered.
ConvertAllBegin ==
    /\ pc = "idle" /\ runs < MaxRuns /\ driver = "convert_all"
    /\ \E all_files \in Listings(PdfFolderNames) :
         LET m == makedirs(fs, output_folder)
         IN  IF m.raised
             THEN Escaped(m.fs) /\ runs' = runs + 1 /\ files' = <<>> /\ attempts' = <<>>
                  /\ listed' = 0 - 1
                  /\ UNCHANGED <<idx, success_count, last, driver>>
             ELSE Enumerated(m.fs, all_files, SelectSeq(all_files, EndsWithPdf))
    /\ UNCHANGED <<viewVars, otherVars>>

\* convert_all when the PDF folder does not exist: os.listdir raises.
ConvertAllNoFolder ==
    /\ pc = "idle" /\ runs < MaxRuns /\ driver = "convert_all"
    /\ Escaped(makedirs(fs, output_folder).fs)
    /\ runs' = runs + 1 /\ files' = <<>> /\ attempts' = <<>> /\ listed' = 0 - 1
    /\ UNCHANGED <<idx, success_count, last, driver>>
    /\ UNCHANGED <<viewVars, otherVars>>

\* One iteration of a driver's loop, given the outcome of the call it makes.
Iteration(name, src, out) ==
    /\ last' = Call(driver, name, src, out, runs)
    /\ attempts' = Append(attempts, Attempt(name, out))
    /\ IF out.raised
       THEN Escaped(out.fs) /\ UNCHANGED <<idx, success_count>>
       ELSE /\ fs' = out.fs
            /\ idx' = idx + 1
            /\ success_count' = IF out.ret THEN success_count + 1 ELSE success_count
            /\ UNCHANGED <<pc, report>>
    /\ UNCHANGED <<listed, files, runs, driver>>

\* for pdf_file in pdf_files: if self.convert_single_pdf(pdf_file): ...
ConvertAllItem ==
    /\ pc = "convert_all" /\ idx <= Len(files)
    /\ \E src \in PdfSources :
         Iteration(files[idx], src, convert_single_pdf(fs, files[idx], src, runs))
    /\ UNCHANGED <<viewVars, otherVars>>

\* The summary a driver prints after its loop.
Summary(d) ==
    /\ pc = d /\ idx > Len(files)
    /\ pc' = "idle"
    /\ report' = Report("summary", success_count, Len(files))
    /\ UNCHANGED <<fs, listed, files, idx, success_count, attempts, last, runs, driver>>
    /\ UNCHANGED <<viewVars, otherVars>>

ConvertAllEnd == Summary("convert_all")

\* convert_all_images when the image folder does not exist.
ConvertAllImagesNoFolder ==
    /\ pc = "idle" /\ runs < MaxRuns /\ driver = "convert_all_images"
    /\ report' = Report("no_folder", 0, 0)
    /\ runs' = runs + 1 /\ files' = <<>> /\ attempts' = <<>> /\ listed' = 0 - 1
    /\ UNCHANGED <<fs, pc, idx, success_count, last, driver>>
    /\ UNCHANGED <<viewVars, otherVars>>

\* convert_all_images up to its loop.
ConvertAllImagesBegin ==
    /\ pc = "idle" /\ runs < MaxRuns /\ driver = "convert_all_images"
    /\ \E all_files \in Listings(ImageFolderNames) :
         LET m == makedirs(fs, image_output_folder)
         IN  IF m.raised
             THEN Escaped(m.fs) /\ runs' = runs + 1 /\ files' = <<>> /\ attempts' = <<>>
                  /\ listed' = 0 - 1
                  /\ UNCHANGED <<idx, success_count, last, driver>>
             ELSE Enumerated(m.fs, all_files, SelectSeq(all_files, IsImageFile))
    /\ UNCHANGED <<viewVars, otherVars>>

\* for image_file in image_files: if self.convert_single_image(image_file): ...
ConvertAllImagesItem ==
    /\ pc = "convert_all_images" /\ idx <= Len(files)
    /\ \E src \in ImageSources :
         Iteration(files[idx], src, convert_single_image(fs, files[idx], src, runs))
    /\ UNCHANGED <<viewVars, otherVars>>

ConvertAllImagesEnd == Summary("convert_all_images")

\* The converter constructed, before any run.  A behaviour runs one of the
\* two drivers, any number of times up to MaxRuns: they read and write
\* disjoint folders (pdf_folder -> output_folder, image_folder ->
\* image_output_folder), so the runs of one never change what the other
\* reads or writes.
ConvInit ==
    /\ fs \in {EmptyFs, StrayFs}
    /\ pc = "idle"
    /\ listed = 0 - 1
    /\ files = <<>>
    /\ idx = 1
    /\ success_count = 0
    /\ attempts = <<>>
    /\ report = Report("none", 0, 0)
    /\ last = NoCall
    /\ runs = 0
    /\ driver \in {"convert_all", "convert_all_images"}

\* ------------------------------------------------------------ viewers

\* A JavaScript number: an integer or NaN.  Every comparison with NaN is false.
Num(v) == [nan |-> FALSE, v |-> v]
NaN == [nan |-> TRUE, v |-> 0]
JsLt(a, b) == ~a.nan /\ ~b.nan /\ a.v < b.v
JsGt(a, b) == JsLt(b, a)
JsLe(a, b) == ~a.nan /\ ~b.nan /\ a.v <= b.v
JsGe(a, b) == JsLe(b, a)
JsAdd(a, k) == IF a.nan THEN NaN ELSE Num(a.v + k)

IsDigitTok(c) == c \in {"0", "1", "2", "3", "4", "5", "6", "7", "8", "9"}
DigitVal(c) == CHOOSE d \in 0..9 : DigitTok(d) = c

\* The value of a run of digit characters.
RECURSIVE DigitsValue(_)
DigitsValue(s) ==
    IF s = <<>> THEN 0
    ELSE 10 * DigitsValue(SubSeq(s, 1, Len(s) - 1)) + DigitVal(s[Len(s)])

\* The longest prefix of s made of digits.
RECURSIVE DigitPrefix(_)
DigitPrefix(s) ==
    IF s = <<>> \/ ~IsDigitTok(Head(s)) THEN <<>>
    ELSE <<Head(s)>> \o DigitPrefix(Tail(s))

\* parseInt(string): an optional sign, then the leading digits; NaN when
\* there are none.
parseInt(s) ==
    LET neg == s # <<>> /\ Head(s) = "-"
        rest == IF s # <<>> /\ Head(s) \in {"-", "+"} THEN Tail(s) ELSE s
        ds == DigitPrefix(rest)
    IN  IF ds = <<>> THEN NaN
        ELSE Num(IF neg THEN 0 - DigitsValue(ds) ELSE DigitsValue(ds))

\* String(n) for an integer n, as characters.
JsString(n) ==
    LET ds == Digits(IF n < 0 THEN 0 - n ELSE n)
        cs == [i \in 1..Len(ds) |-> DigitTok(ds[i])]
    IN  IF n < 0 THEN <<"-">> \o cs ELSE cs

\* What pageInput.value can hold when jumpToPage reads it: the numbers
\* around the valid range, the empty string (the field cleared, or its
\* content not a number), a fraction, and an exponent form.
PageInputValues ==
    {JsString(n) : n \in (0 - 1)..(MaxTotalPages + 1)}
    \cup { <<>>, <<"2", Dot, "5">>, <<"1", "e", "2">> }

\* let zoomLevel = 1.0, and the 0.2, 3.0 and 0.5 of zoomIn and zoomOut, in tenths.
ZoomInitial == 10
ZoomStep == 2
ZoomMax == 30
ZoomMin == 5

Min(a, b) == IF a < b THEN a ELSE b
Max(a, b) == IF a > b THEN a ELSE b

\* pageImage.src before the first image has loaded.
NoImage == [nan |-> TRUE, v |-> 0 - 1]

\* loadPage(pageNum): a new Image() starts to load the page's file, then
\* currentPage is set; img.onload and img.onerror run later.
loadPage(pageNum) ==
    /\ requested' = pageNum
    /\ currentPage' = pageNum
    /\ pending' = pending \cup {pageNum}
    /\ shown' = shown

\* prevPage()
prevPage ==
    IF JsGt(currentPage, Num(1))
    THEN loadPage(JsAdd(currentPage, 0 - 1))
    ELSE UNCHANGED <<requested, currentPage, pending, shown>>

\* nextPage()
nextPage ==
    IF JsLt(currentPage, Num(totalPages))
    THEN loadPage(JsAdd(currentPage, 1))
    ELSE UNCHANGED <<requested, currentPage, pending, shown>>

\* The two clamps of jumpToPage.
ClampPage(pageNum, total) ==
    LET low == IF JsLt(pageNum, Num(1)) THEN Num(1) ELSE pageNum
    IN  IF JsGt(low, Num(total)) THEN Num(total) ELSE low

\* jumpToPage(), given pageInput.value
jumpToPage(value) == loadPage(ClampPage(parseInt(value), totalPages))

\* Mutant: zoomIn without its upper limit.
zoomInUnclamped(z) == z + ZoomStep

\* zoomIn(), zoomOut(), resetZoom(): the new zoomLevel
zoomIn(z) == Min(z + ZoomStep, ZoomMax)
zoomOut(z) == Max(z - ZoomStep, ZoomMin)
resetZoom(z) == ZoomInitial

\* The same three functions in the image viewer's script.
imageZoomIn(z) == Min(z + ZoomStep, ZoomMax)
imageZoomOut(z) == Max(z - ZoomStep, ZoomMin)
imageResetZoom(z) == ZoomInitial

\* window DOMContentLoaded: loadPage(1) in the PDF viewer, loadImage() in
\* the image viewer.
DOMContentLoaded ==
    /\ ~loaded
    /\ loaded' = TRUE
    /\ IF viewer = "pdf" THEN loadPage(Num(1))
       ELSE UNCHANGED <<requested, currentPage, pending, shown>>
    /\ UNCHANGED <<viewer, totalPages, zoomLevel>>
    /\ UNCHANGED <<convVars, otherVars>>

\* updateButtons(): prevBtn.disabled and nextBtn.disabled
PrevDisabled == JsLe(currentPage, Num(1))
NextDisabled == JsGe(currentPage, Num(totalPages))

\* A click on prevBtn.
ClickPrev ==
    /\ loaded /\ viewer = "pdf" /\ ~PrevDisabled
    /\ prevPage
    /\ UNCHANGED <<viewer, loaded, totalPages, zoomLevel>>
    /\ UNCHANGED <<convVars, otherVars>>

\* A click on nextBtn.
ClickNext ==
    /\ loaded /\ viewer = "pdf" /\ ~NextDisabled
    /\ nextPage
    /\ UNCHANGED <<viewer, loaded, totalPages, zoomLevel>>
    /\ UNCHANGED <<convVars, otherVars>>

\* A change of pageInput.
ChangePageInput ==
    /\ loaded /\ viewer = "pdf"
    /\ \E value \in PageInputValues : jumpToPage(value)
    /\ UNCHANGED <<viewer, loaded, totalPages, zoomLevel>>
    /\ UNCHANGED <<convVars, otherVars>>

\* A click on one of the three zoom buttons.
ClickZoom ==
    /\ loaded
    /\ zoomLevel' \in
         IF viewer = "pdf"
         THEN {zoomIn(zoomLevel), zoomOut(zoomLevel), resetZoom(zoomLevel)}
         ELSE {imageZoomIn(zoomLevel), imageZoomOut(zoomLevel), imageResetZoom(zoomLevel)}
    /\ UNCHANGED <<viewer, loaded, totalPages, currentPage, requested, pending, shown>>
    /\ UNCHANGED <<convVars, otherVars>>

\* The keys the keydown listeners act on.
PdfKeys == {"ArrowLeft", "ArrowRight", "+", "=", "-", "0"}
ImageKeys == {"+", "=", "-", "0"}

\* document keydown
KeyDown ==
    /\ loaded
    /\ \E key \in IF viewer = "pdf" THEN PdfKeys ELSE ImageKeys :
         CASE key = "ArrowLeft" -> prevPage /\ UNCHANGED zoomLevel
           [] key = "ArrowRight" -> nextPage /\ UNCHANGED zoomLevel
           [] key \in {"+", "="} ->
                /\ zoomLevel' = IF viewer = "pdf" THEN zoomIn(zoomLevel)
                                 ELSE imageZoomIn(zoomLevel)
                /\ UNCHANGED <<requested, currentPage, pending, shown>>
           [] key = "-" ->
                /\ zoomLevel' = IF viewer = "pdf" THEN zoomOut(zoomLevel)
                                 ELSE imageZoomOut(zoomLevel)
                /\ UNCHANGED <<requested, currentPage, pending, shown>>
           [] key = "0" ->
                /\ zoomLevel' = IF viewer = "pdf" THEN resetZoom(zoomLevel)
                                 ELSE imageResetZoom(zoomLevel)
                /\ UNCHANGED <<requested, currentPage, pending, shown>>
    /\ UNCHANGED <<viewer, loaded, totalPages>>
    /\ UNCHANGED <<convVars, otherVars>>

\* Whether the bundle holds the image file of page p.
HasPageImage(p) == ~p.nan /\ 1 <= p.v /\ p.v <= totalPages

\* img.onload of the Image() that loadPage(p) created: the file was
\* fetched, at whatever moment after the call.
ImageOnLoad ==
    /\ \E p \in pending :
         /\ HasPageImage(p)
         /\ shown' = p
         /\ pending' = pending \ {p}
    /\ UNCHANGED <<viewer, loaded, totalPages, currentPage, zoomLevel, requested>>
    /\ UNCHANGED <<convVars, otherVars>>

\* img.onerror of the Image() that loadPage(p) created: there is no such
\* file; pageImage keeps its src.
ImageOnError ==
    /\ \E p \in pending :
         /\ ~HasPageImage(p)
         /\ pending' = pending \ {p}
    /\ UNCHANGED <<viewer, loaded, totalPages, currentPage, zoomLevel, requested, shown>>
    /\ UNCHANGED <<convVars, otherVars>>

\* The page counts convert_single_pdf hands to get_html_template.
EmittedPageCounts ==
    {convert_pdf_to_images(EmptyFs, src, <<(<<"a">>)>>, 1).ret :
        src \in {x \in PdfSources : x.kind = "pdf" /\ x.corrupt = 0}}

\* The viewer before its page is opened.
ViewerClosed ==
    /\ viewer = "pdf"
    /\ loaded = FALSE
    /\ totalPages = 0
    /\ currentPage = Num(1)
    /\ zoomLevel = ZoomInitial
    /\ requested = Num(1)
    /\ pending = {}
    /\ shown = NoImage

\* A generated page, opened: the PDF viewer of a document of any page
\* count the converter emits, or the image viewer.
ViewerInit ==
    /\ viewer \in {"pdf", "image"}
    /\ loaded = FALSE
    /\ totalPages \in IF viewer = "pdf" THEN EmittedPageCounts \cup (0..MaxTotalPages) ELSE {0}
    /\ currentPage = Num(1)
    /\ zoomLevel = ZoomInitial
    /\ requested = Num(1)
    /\ pending = {}
    /\ shown = NoImage

\* No driver runs.
ConvIdle ==
    /\ fs = EmptyFs
    /\ pc = "idle"
    /\ listed = 0 - 1
    /\ files = <<>>
    /\ idx = 1
    /\ success_count = 0
    /\ attempts = <<>>
    /\ report = Report("none", 0, 0)
    /\ last = NoCall
    /\ runs = MaxRuns
    /\ driver = "convert_all"

\* ------------------------------------------------------------ page file names

\* Mutant: the padding put after the digits.
padEnd(s, targetLength, padString) ==
    IF Len(s) >= targetLength THEN s
    ELSE s \o [i \in 1..(targetLength - Len(s)) |-> padString]

\* String.prototype.padStart(targetLength, padString), padString one character.
padStart(s, targetLength, padString) ==
    IF Len(s) >= targetLength THEN s
    ELSE [i \in 1..(targetLength - Len(s)) |-> padString] \o s

\* `images/page_${String(pageNum).padStart(3, '0')}.png`, as path components.
ImagePath(pageNum) ==
    <<ImagesName, <<"page_">> \o padStart(JsString(pageNum), 3, "0") \o <<Dot, "png">> >>

\* os.path.join(images_dir, f"page_{page_num + 1:03d}.png") below the bundle.
ImgPath(page_num) == <<ImagesName, PageFileName(PageIndex(page_num))>>

\* No page compared yet.
NamesIdle ==
    /\ page = 0
    /\ img_path = <<>>
    /\ imagePath = <<>>

\* The next page of a document: the rasterizer writes it at iteration
\* page_num = page, the viewer requests it with loadPage(page + 1).
NamePage ==
    /\ page < MaxPageNumber
    /\ page' = page + 1
    /\ img_path' = ImgPath(page)
    /\ imagePath' = ImagePath(page + 1)
    /\ UNCHANGED <<convVars, viewVars, arcVars, mapVars, drawVars>>

\* ------------------------------------------------------------ archiving script

\* The prefix of the archive names, and os.path.basename(__file__); both
\* are written here with ASCII stand-ins for the names of the source.
ArchivePrefix == "archive_"
ScriptName == <<"pack", Dot, "py">>

\* file.startswith(prefix), file.endswith(".zip")
StartsWithPrefix(file) == Len(file) >= 1 /\ file[1] = ArchivePrefix
EndsWithZip(file) == Len(file) >= 2 /\ file[Len(file) - 1] = Dot /\ file[Len(file)] = "zip"

\* The timestamps old archives carry and the ones the clock can give now:
\* later than every old one, or the one of the latest.
OldStamps == {"t1", "t2"}
NowStamps == {"t2", "t3"}

\* f"<prefix>{timestamp}.zip"
ArchiveName(timestamp) == <<ArchivePrefix, timestamp, Dot, "zip">>

\* What the current directory can hold beside the script: old archives,
\* a directory named like one, an archive with the extension in upper
\* case, a file with the prefix that is no archive, another zip, a
\* document, and a sub-directory with a document, an archive and a file
\* named like the script.
OptionalEntries ==
    {[path |-> <<ArchiveName(t)>>, type |-> "file"] : t \in OldStamps}
    \cup {[path |-> <<(<<ArchivePrefix, "d", Dot, "zip">>)>>, type |-> "dir"],
          [path |-> <<(<<ArchivePrefix, "u", Dot, "ZIP">>)>>, type |-> "file"],
          [path |-> <<(<<ArchivePrefix, "notes", Dot, "txt">>)>>, type |-> "file"],
          [path |-> <<(<<"other", Dot, "zip">>)>>, type |-> "file"],
          [path |-> <<(<<"a", Dot, "txt">>)>>, type |-> "file"],
          [path |-> << <<"sub">>, <<"b", Dot, "txt">> >>, type |-> "file"],
          [path |-> << <<"sub">>, ArchiveName("t1") >>, type |-> "file"],
          [path |-> << <<"sub">>, ScriptName >>, type |-> "file"]}

\* The directory holding the script, the entries of S and their directories.
TreeOf(S) ==
    LET paths == {e.path : e \in S}
        dirs == UNION {Prefixes(Parent(q)) : q \in paths}
    IN  [q \in paths \cup dirs \cup {<<ScriptName>>} |->
            IF q = <<ScriptName>> THEN "file"
            ELSE IF \E e \in S : e.path = q /\ e.type = "dir" THEN "dir"
            ELSE IF q \in paths THEN "file" ELSE "dir"]

\* os.listdir(current_dir), os.path.isfile
Listdir(t) == {q[1] : q \in {r \in DOMAIN t : Len(r) = 1}}
IsRegularFile(t, q) == q \in DOMAIN t /\ t[q] = "file"

\* Mutant: every zip file of the directory taken for an old archive.
IsOldArchiveAnyZip(t, file) == IsRegularFile(t, <<file>>) /\ EndsWithZip(file)

\* The test of the loop of delete_old_archives.
IsOldArchive(t, file) ==
    IsRegularFile(t, <<file>>) /\ StartsWithPrefix(file) /\ EndsWithZip(file)

\* delete_old_archives(), when os.remove raises for the files of failing.
delete_old_archives(t, failing) ==
    LET matching == {file \in Listdir(t) : IsOldArchive(t, file)}
        removed == matching \ failing
    IN  [tree |-> [q \in DOMAIN t \ {<<file>> : file \in removed} |-> t[q]],
         deleted_count |-> Cardinality(removed),
         failed |-> matching \cap failing]

\* The files os.walk(current_dir) yields, as paths relative to current_dir.
Walk(t) == {q \in DOMAIN t : t[q] = "file"}

\* The test of the loop of create_archive: the file is skipped.
Skipped(file) == file = ScriptName \/ EndsWithZip(file)

\* create_archive() at the given time: the archive is opened for writing
\* (created or truncated), then the directory is walked.
create_archive(t, timestamp) ==
    LET name == ArchiveName(timestamp)
        opened == [q \in DOMAIN t \cup {<<name>>} |-> IF q = <<name>> THEN "file" ELSE t[q]]
    IN  [tree |-> opened,
         archive_name |-> name,
         zip_names |-> {q \in Walk(opened) : ~Skipped(q[Len(q)])}]

\* The script before it starts, in any directory.
ArcInit ==
    /\ tree \in {TreeOf(S) : S \in SUBSET OptionalEntries}
    /\ arc_pc = "start"
    /\ deleted_count = 0
    /\ failed = {}
    /\ archive_name = <<>>
    /\ zip_names = {}

\* The script not run.
ArcIdle ==
    /\ tree = TreeOf({})
    /\ arc_pc = "off"
    /\ deleted_count = 0
    /\ failed = {}
    /\ archive_name = <<>>
    /\ zip_names = {}

\* __main__: delete_old_archives()
DeleteOldArchives ==
    /\ arc_pc = "start"
    /\ \E failing \in SUBSET {file \in Listdir(tree) : IsRegularFile(tree, <<file>>)} :
         LET r == delete_old_archives(tree, failing)
         IN  /\ tree' = r.tree
             /\ deleted_count' = r.deleted_count
             /\ failed' = r.failed
    /\ arc_pc' = "deleted"
    /\ UNCHANGED <<archive_name, zip_names>>
    /\ UNCHANGED <<convVars, viewVars, nameVars, mapVars, drawVars>>

\* __main__: archive_path = create_archive()
CreateArchive ==
    /\ arc_pc = "deleted"
    /\ \E timestamp \in NowStamps :
         LET r == create_archive(tree, timestamp)
         IN  /\ tree' = r.tree
             /\ archive_name' = r.archive_name
             /\ zip_names' = r.zip_names
    /\ arc_pc' = "done"
    /\ UNCHANGED <<deleted_count, failed>>
    /\ UNCHANGED <<convVars, viewVars, nameVars, mapVars, drawVars>>

\* ------------------------------------------------------------ map script

\* output_paths of __main__ (ASCII stand-ins for the two paths).
output_paths == <<"basic/map.png", "basic_html/map/images/map.png">>

\* What the server can send as the province's GeoJSON.
GeoData == {"geo_v1", "geo_v2"}

\* How one requests.get(url, timeout=30) with raise_for_status() and
\* response.json() can end: with data, with an empty JSON object, or with
\* an exception (no answer within the timeout, an HTTP error status, a
\* body that is not JSON).
FetchOutcomes ==
    {[kind |-> "ok", data |-> d] : d \in GeoData}
    \cup {[kind |-> k, data |-> ""] : k \in {"empty", "timeout", "http_error", "bad_json"}}

\* download_sichuan_geojson(): the data, or None ("") after an exception;
\* an empty object is returned as it is and is falsy as well.
download_sichuan_geojson(outcome) == IF outcome.kind = "ok" THEN outcome.data ELSE ""

\* plt.savefig(output_path, ...): the picture drawn from the data.
MapImage(geojson_data) == <<"map", geojson_data>>

\* create_clean_sichuan_map(output_path, ...), given how its fetch ends.
create_clean_sichuan_map(m, output_path, outcome) ==
    LET geojson_data == download_sichuan_geojson(outcome)
    IN  IF geojson_data = ""
        THEN [maps |-> m, ret |-> FALSE]
        ELSE [maps |-> [q \in DOMAIN m \cup {output_path} |->
                          IF q = output_path THEN MapImage(geojson_data) ELSE m[q]],
              ret |-> TRUE]

\* The pictures an earlier run may have left at the output paths.
OldMaps(S) == [q \in S |-> <<"map", "old">>]

\* The script started.
MapInit ==
    /\ map_pc = "loop"
    /\ path_idx = 1
    /\ fetches = <<>>
    /\ maps \in {OldMaps(S) : S \in SUBSET {output_paths[i] : i \in 1..Len(output_paths)}}
    /\ map_success_count = 0
    /\ map_report = "none"

\* The script not run.
MapIdle ==
    /\ map_pc = "off"
    /\ path_idx = 1
    /\ fetches = <<>>
    /\ maps = OldMaps({})
    /\ map_success_count = 0
    /\ map_report = "none"

\* for output_path in output_paths: if create_clean_sichuan_map(...): ...
GenerateMap ==
    /\ map_pc = "loop" /\ path_idx <= Len(output_paths)
    /\ \E outcome \in FetchOutcomes :
         LET r == create_clean_sichuan_map(maps, output_paths[path_idx], outcome)
         IN  /\ fetches' = Append(fetches, outcome)
             /\ maps' = r.maps
             /\ map_success_count' = IF r.ret THEN map_success_count + 1
                                      ELSE map_success_count
    /\ path_idx' = path_idx + 1
    /\ UNCHANGED <<map_pc, map_report>>
    /\ UNCHANGED <<convVars, viewVars, nameVars, arcVars, drawVars>>

\* if success_count > 0: the files are reported; else: the failure is.
MapReport ==
    /\ map_pc = "loop" /\ path_idx > Len(output_paths)
    /\ map_report' = IF map_success_count > 0 THEN "generated" ELSE "failed"
    /\ map_pc' = "done"
    /\ UNCHANGED <<path_idx, fetches, maps, map_success_count>>
    /\ UNCHANGED <<convVars, viewVars, nameVars, arcVars, drawVars>>

\* ------------------------------------------------------------ map drawing

\* city_colors, luzhou_color, luzhou_edge_color, normal_edge_color: the
\* numerators of the (r/255, g/255, b/255) tuples.
city_colors ==
    << <<33, 150, 243>>, <<25, 118, 210>>, <<21, 101, 192>>,
       <<13, 71, 161>>, <<66, 165, 245>>, <<100, 181, 246>>,
       <<144, 202, 249>>, <<187, 222, 251>>, <<30, 136, 229>>,
       <<25, 118, 210>>, <<21, 101, 192>>, <<13, 71, 161>>,
       <<33, 150, 243>>, <<66, 165, 245>>, <<100, 181, 246>>,
       <<144, 202, 249>>, <<187, 222, 251>>, <<30, 136, 229>>,
       <<25, 118, 210>>, <<21, 101, 192>>, <<13, 71, 161>> >>
luzhou_color == <<255, 82, 82>>
luzhou_edge_color == <<211, 47, 47>>
normal_edge_color == <<0, 212, 255>>

\* The highlighted city's name as a part of a feature name (an ASCII
\* stand-in), and the names features carry: one containing it, one not.
HighlightedName == "Luzhou"
FeatureNames == { <<"Luzhou", "City">>, <<"Chengdu", "City">> }

\* The geometries features carry: a polygon of one ring, a multi-polygon
\* of two polygons of one ring, a geometry of another type, and a geometry
\* without a type (geometry['type'] raises).
Geometries == {"Polygon", "MultiPolygon", "Point", "untyped"}

Feature(name, geometry) == [name |-> name, geometry |-> geometry]

\* is_luzhou: whether the highlighted name is in city_name.
IsLuzhou(feature) == \E i \in 1..Len(feature.name) : feature.name[i] = HighlightedName

\* The number of ax.fill calls the two loops over coordinates make.
RingCount(geometry) ==
    CASE geometry = "Polygon" -> 1
      [] geometry = "MultiPolygon" -> 2
      [] OTHER -> 0

\* The feature lists drawn: every list up to MaxShort features, and the
\* lists of polygons up to MaxFeatures long with at most two highlighted
\* features anywhere in them.
ShortLists ==
    UNION { [1..n -> {Feature(nm, g) : nm \in FeatureNames, g \in Geometries}] : n \in 0..MaxShort }
LongLists ==
    UNION { { [i \in 1..n |-> Feature(IF i \in {a, b} THEN <<"Luzhou", "City">>
                                      ELSE <<"Chengdu", "City">>, "Polygon")] :
                a \in 0..n, b \in 0..n } : n \in (MaxShort + 1)..MaxFeatures }
FeatureLists == ShortLists \cup LongLists

\* Mutant: the colour index advanced by every feature.
NextColorIndexAlways(is_luzhou, index) == index + 1

\* The if / else choosing the colours of a feature: what is filled with,
\* and color_index afterwards.
FillColor(is_luzhou, index) ==
    IF is_luzhou THEN luzhou_color ELSE city_colors[(index % Len(city_colors)) + 1]
EdgeColor(is_luzhou) == IF is_luzhou THEN luzhou_edge_color ELSE normal_edge_color
NextColorIndex(is_luzhou, index) == IF is_luzhou THEN index ELSE index + 1

\* create_clean_sichuan_map with the data fetched, before its loop.
DrawInit ==
    /\ features \in FeatureLists
    /\ draw_pc = "loop"
    /\ feat_idx = 1
    /\ color_index = 0
    /\ city_count = 0
    /\ fills = <<>>

\* No map being drawn.
DrawIdle ==
    /\ features = <<>>
    /\ draw_pc = "off"
    /\ feat_idx = 1
    /\ color_index = 0
    /\ city_count = 0
    /\ fills = <<>>

\* One iteration of: for feature in geojson_data.get('features', [])
DrawFeature ==
    /\ draw_pc = "loop" /\ feat_idx <= Len(features)
    /\ LET feature == features[feat_idx]
           is_luzhou == IsLuzhou(feature)
           call == [feature |-> feat_idx,
                    color |-> FillColor(is_luzhou, color_index),
                    edgecolor |-> EdgeColor(is_luzhou)]
       IN  /\ color_index' = NextColorIndex(is_luzhou, color_index)
           /\ IF feature.geometry = "untyped"
              THEN draw_pc' = "raised" /\ UNCHANGED <<fills, city_count, feat_idx>>
              ELSE /\ fills' = fills \o [k \in 1..RingCount(feature.geometry) |-> call]
                   /\ city_count' = city_count + 1
                   /\ feat_idx' = feat_idx + 1
                   /\ UNCHANGED draw_pc
    /\ UNCHANGED features
    /\ UNCHANGED <<convVars, viewVars, nameVars, arcVars, mapVars>>

\* After the loop: the picture is saved and city_count printed.
SaveMap ==
    /\ draw_pc = "loop" /\ feat_idx > Len(features)
    /\ draw_pc' = "done"
    /\ UNCHANGED <<features, feat_idx, color_index, city_count, fills>>
    /\ UNCHANGED <<convVars, viewVars, nameVars, arcVars, mapVars>>

OthersIdle == NamesIdle /\ ArcIdle /\ MapIdle /\ DrawIdle

Init == ConvInit /\ ViewerClosed /\ OthersIdle

Next ==
    \/ ConvertAllBegin
    \/ ConvertAllNoFolder
    \/ ConvertAllItem
    \/ ConvertAllEnd
    \/ ConvertAllImagesNoFolder
    \/ ConvertAllImagesBegin
    \/ ConvertAllImagesItem
    \/ ConvertAllImagesEnd

Spec == Init /\ [][Next]_vars

InitViewer == ConvIdle /\ ViewerInit /\ OthersIdle

NextViewer ==
    \/ DOMContentLoaded
    \/ ClickPrev
    \/ ClickNext
    \/ ChangePageInput
    \/ ClickZoom
    \/ KeyDown
    \/ ImageOnLoad
    \/ ImageOnError

SpecViewer == InitViewer /\ [][NextViewer]_vars

InitNames == ConvIdle /\ ViewerClosed /\ NamesIdle /\ ArcIdle /\ MapIdle /\ DrawIdle

NextNames == NamePage

SpecNames == InitNames /\ [][NextNames]_vars

InitArchive == ConvIdle /\ ViewerClosed /\ NamesIdle /\ ArcInit /\ MapIdle /\ DrawIdle

NextArchive ==
    \/ DeleteOldArchives
    \/ CreateArchive

SpecArchive == InitArchive /\ [][NextArchive]_vars

InitMap == ConvIdle /\ ViewerClosed /\ NamesIdle /\ ArcIdle /\ MapInit /\ DrawIdle

NextMap ==
    \/ GenerateMap
    \/ MapReport

SpecMap == InitMap /\ [][NextMap]_vars

InitDraw == ConvIdle /\ ViewerClosed /\ NamesIdle /\ ArcIdle /\ MapIdle /\ DrawInit

NextDraw ==
    \/ DrawFeature
    \/ SaveMap

SpecDraw == InitDraw /\ [][NextDraw]_vars

\* ------------------------------------------------------------ claims

\* Whether name is page_<digits>.png with the digits those of k, at least
\* three of them, and no more than three unless k needs them.
IsPageName(name, k) ==
    /\ Len(name) >= 6
    /\ name[1] = "page_" /\ name[Len(name) - 1] = Dot /\ name[Len(name)] = "png"
    /\ LET ds == SubSeq(name, 2, Len(name) - 2)
       IN  /\ Len(ds) >= 3
           /\ \A i \in 1..Len(ds) : IsDigitTok(ds[i])
           /\ DigitsValue(ds) = k
           /\ Len(ds) > 3 => ds[1] # "0"

\* The page images a call wrote, in the order it wrote them.
PagesWritten(call) ==
    SelectSeq(call.written, LAMBDA p : Parent(p) = call.output_dir \o <<ImagesName>>)

\* C1: convert_pdf_to_images, called for a readable PDF of N pages,
\* returns N and writes, in this run, exactly the N files page_001.png ..
\* page_N.png of the bundle's images directory, one per page, without gap
\* or duplicate.
C1_PageImages ==
    (/\ last.driver = "convert_all" /\ ~last.raised
     /\ last.src.kind = "pdf" /\ last.src.corrupt = 0) =>
        LET images_dir == last.output_dir \o <<ImagesName>>
            pages == PagesWritten(last)
            N == last.src.n
        IN  /\ last.page_count = N
            /\ Len(pages) = N
            /\ \A k \in 1..N :
                 /\ Parent(pages[k]) = images_dir
                 /\ IsPageName(pages[k][Len(pages[k])], k)
            /\ {p \in FilesIn(fs, images_dir) : fs[p].mtime = last.now}
                 = {pages[k] : k \in 1..N}

\* C1 witness: a PDF of at least two pages was converted.
C1_Witness ==
    /\ last.driver = "convert_all" /\ last.ret
    /\ last.page_count >= 2 /\ Len(PagesWritten(last)) >= 2

\* C2: whenever convert_single_pdf returns True, the page_count of the
\* bundle's metadata.json is the number of files in the bundle's images
\* directory.
C2_MetadataCountsImages ==
    (last.driver = "convert_all" /\ last.ret) =>
        fs[last.output_dir \o <<MetadataJson>>].data[1].page_count
          = Cardinality(FilesIn(fs, last.output_dir \o <<ImagesName>>))

\* C3: in the PDF viewer every loadPage call, the initial one included,
\* has a page number in 1..page_count.
C3_PageInRange ==
    (viewer = "pdf" /\ loaded) =>
        /\ ~requested.nan
        /\ 1 <= requested.v /\ requested.v <= totalPages

\* C4: in both viewers the zoom level stays within 0.5 .. 3.0 (5 .. 30
\* tenths).
C4_ZoomBounded == 5 <= zoomLevel /\ zoomLevel <= 30

\* C4 witness: the image viewer zoomed out until the lower limit cut the step.
C4_Witness == viewer = "image" /\ loaded /\ zoomLevel = 5

\* C5: after convert_single_image returns True, the bundle's images
\* directory holds exactly one file, with the bytes of the source image.
C5_SingleImageCopied ==
    (last.driver = "convert_all_images" /\ last.ret) =>
        LET images == FilesIn(fs, last.output_dir \o <<ImagesName>>)
        IN  /\ Cardinality(images) = 1
            /\ \A p \in images : fs[p].data = <<ImageBytes(last.src)>>

\* The names of the files a run has attempted, in order.
AttemptedNames == [i \in 1..Len(attempts) |-> attempts[i].name]

\* C6: a batch driver attempts the enumerated files once each and in
\* order, no exception of an item's conversion leaves it, and its summary
\* counts the conversions that returned True out of all enumerated.
C6_BatchTolerant ==
    /\ \A i \in 1..Len(attempts) : ~attempts[i].raised
    /\ pc # "idle" => AttemptedNames = SubSeq(files, 1, idx - 1)
    /\ (pc = "idle" /\ files # <<>>) =>
         /\ report.kind = "summary"
         /\ AttemptedNames = files
         /\ report.total = Len(files)
         /\ report.success = Cardinality({i \in 1..Len(attempts) : attempts[i].ret})

\* C7: a convert_single_* call whose source does not exist reports
\* not-found, returns False and leaves the output folders as they were.
C7_MissingSourceNoEffect ==
    [][(Len(attempts') > Len(attempts) /\ last'.src.kind = "missing") =>
         /\ fs' = fs
         /\ last'.msg = "not_found"
         /\ ~last'.ret /\ ~last'.raised
         /\ last'.written = <<>>]_vars

\* C7 witness: in a batch of two, the first was converted and the second
\* was not found.
C7_Witness ==
    /\ Len(attempts) = 2 /\ attempts[1].ret
    /\ last.src.kind = "missing" /\ last.msg = "not_found"

\* C8: a driver that finds its source folder without any eligible file
\* returns without raising, converts nothing, creates nothing below the
\* output folders and reports that there is nothing to convert.
C8_NoEligibleFiles ==
    [][(runs' = runs + 1 /\ listed' >= 0 /\ files' = <<>>) =>
         /\ pc' = "idle"
         /\ report' = Report("no_files", 0, 0)
         /\ attempts' = <<>>
         /\ last' = last
         /\ DOMAIN fs' \ DOMAIN fs \subseteq {output_folder, image_output_folder}
         /\ \A p \in DOMAIN fs : fs'[p] = fs[p]]_vars

\* C8 witness: the folder held entries, none of them eligible.
C8_Witness ==
    /\ pc = "idle" /\ listed >= 1 /\ files = <<>> /\ report.kind = "no_files"

\* C9: after convert_single_pdf returns True, every file of the bundle
\* was written by that call: the page images 1..N, index.html and
\* metadata.json, and nothing from an earlier conversion.
C9_BundleRegenerated ==
    (last.driver = "convert_all" /\ last.ret) =>
        \A p \in Below(fs, last.output_dir) :
            fs[p].type = "file" =>
                /\ fs[p].mtime = last.now
                /\ \E i \in 1..Len(last.written) : last.written[i] = p

\* C10: the items of one batch that write anything write below pairwise
\* different bundle directories, each only below its own, and no file is
\* written by two of them.
C10_DisjointBundles ==
    /\ \A i, j \in 1..Len(attempts) :
         (i # j /\ attempts[i].written # <<>> /\ attempts[j].written # <<>>)
            => /\ attempts[i].output_dir # attempts[j].output_dir
               /\ \A k \in 1..Len(attempts[i].written) :
                    \A l \in 1..Len(attempts[j].written) :
                       attempts[i].written[k] # attempts[j].written[l]
    /\ \A i \in 1..Len(attempts) : \A k \in 1..Len(attempts[i].written) :
         LET p == attempts[i].written[k]
             d == attempts[i].output_dir
         IN  Len(p) > Len(d) /\ SubSeq(p, 1, Len(d)) = d

\* A convert_single_* call was made in this step.
Called == Len(attempts') > Len(attempts)

IsStemOf(stem, name) ==
    /\ Len(name) = Len(stem) + 2
    /\ SubSeq(name, 1, Len(stem)) = stem
    /\ name[Len(name) - 1] = Dot /\ name[Len(name)] # Dot

\* The position of path p in the files a call wrote, 0 when it did not.
WrittenAt(call, p) ==
    IF \E i \in 1..Len(call.written) : call.written[i] = p
    THEN CHOOSE i \in 1..Len(call.written) :
            /\ call.written[i] = p
            /\ \A j \in 1..(i - 1) : call.written[j] # p
    ELSE 0

\* C12: after a conversion that returned True the bundle is the directory
\* <output folder>/<source name without extension> and holds a directory
\* images, a file index.html and a file metadata.json; a call writes its
\* images first, then index.html, then metadata.json, so a call that wrote
\* metadata.json wrote index.html and every image before it.
C12_BundleLayoutAndOrder ==
    LET d == last.output_dir
        root == IF last.driver = "convert_all" THEN output_folder ELSE image_output_folder
        index == WrittenAt(last, d \o <<IndexHtml>>)
        meta == WrittenAt(last, d \o <<MetadataJson>>)
        n == Len(last.written)
    IN  /\ last.ret =>
             /\ Len(d) = Len(root) + 1 /\ SubSeq(d, 1, Len(root)) = root
             /\ IsStemOf(d[Len(d)], last.name)
             /\ IsDir(fs, d) /\ IsDir(fs, d \o <<ImagesName>>)
             /\ IsFile(fs, d \o <<IndexHtml>>) /\ IsFile(fs, d \o <<MetadataJson>>)
             /\ fs[d \o <<IndexHtml>>].mtime = last.now
             /\ fs[d \o <<MetadataJson>>].mtime = last.now
             /\ meta = n
        /\ meta > 0 =>
             /\ meta = n /\ index = n - 1
             /\ \A i \in 1..(n - 2) : Parent(last.written[i]) = d \o <<ImagesName>>
             /\ last.driver = "convert_all" => n - 2 = last.page_count
             /\ last.driver = "convert_all_images" => n - 2 = 1
        /\ index > 0 => \A i \in 1..(index - 1) : Parent(last.written[i]) = d \o <<ImagesName>>

\* C12 witness: a two-page PDF was converted: two images, index.html,
\* metadata.json.
C12_Witness ==
    /\ last.driver = "convert_all" /\ last.ret /\ Len(last.written) = 4
    /\ last.written[4] = PdfBundleDir(last.name) \o <<MetadataJson>>

\* C13: the k-th file convert_pdf_to_images writes is page_k (zero-padded)
\* of the bundle's images directory and holds the rendering of the k-th
\* page of the source document, for every k up to the number of files it
\* wrote: all N when it returned, those before the failing page otherwise.
C13_PageOrderPreserved ==
    (last.driver = "convert_all" /\ last.src.kind = "pdf" /\ ~last.raised) =>
        LET pages == PagesWritten(last)
            N == last.src.n
            c == last.src.corrupt
        IN  /\ Len(pages) = (IF c > 0 THEN c - 1 ELSE N)
            /\ \A k \in 1..Len(pages) :
                 /\ IsPageName(pages[k][Len(pages[k])], k)
                 /\ IsFile(fs, pages[k])
                 /\ fs[pages[k]].data = << <<"png", last.src.id, k - 1>> >>
                 /\ fs[pages[k]].mtime = last.now
                 /\ last.written[k] = pages[k]

\* C13 witness: the second file written holds the second page of a
\* two-page document.
C13_Witness ==
    /\ last.driver = "convert_all" /\ last.src.kind = "pdf" /\ last.src.n = 2
    /\ Len(PagesWritten(last)) = 2
    /\ fs[PagesWritten(last)[2]].data = <<PagePng(last.src, 1)>>

\* C14: the metadata.json a PDF conversion writes is a record of exactly
\* title, page_count, pdf_filename and dpi, with the source name without
\* extension, the source name and the configured resolution; the record
\* an image conversion writes has title, image_filename and format, the
\* extension of the source name, and no page_count.
C14_MetadataFields ==
    last.ret =>
        LET rec == fs[last.output_dir \o <<MetadataJson>>].data[1]
        IN  IF last.driver = "convert_all"
            THEN /\ DOMAIN rec = {"title", "page_count", "pdf_filename", "dpi"}
                 /\ IsStemOf(rec.title, last.name)
                 /\ rec.pdf_filename = last.name
                 /\ rec.dpi = 200
            ELSE /\ {"title", "image_filename", "format"} \subseteq DOMAIN rec
                 /\ "page_count" \notin DOMAIN rec
                 /\ IsStemOf(rec.title, last.name)
                 /\ rec.image_filename = last.name
                 /\ rec.title \o rec.format = last.name

\* C14 witness: an image whose extension is in upper case was converted.
C14_Witness ==
    /\ last.driver = "convert_all_images" /\ last.ret
    /\ fs[last.output_dir \o <<MetadataJson>>].data[1].format = <<Dot, "PNG">>

\* C19: in both viewers every reachable zoom level is 1.0 plus or minus a
\* whole number of 0.2 steps, or the lower limit 0.5: in tenths, one of
\* 5, 6, 8, 10, 12, .. 30.
C19_ZoomOnGrid ==
    zoomLevel = ZoomMin
    \/ \E n \in 0..((ZoomMax - ZoomMin) \div ZoomStep) :
         zoomLevel = ZoomInitial + n * ZoomStep \/ zoomLevel = ZoomInitial - n * ZoomStep

\* C18: in the PDF viewer, whenever no image load is pending and the file
\* of currentPage exists, the image shown is the image of currentPage.
C18_ShownIsCurrent ==
    (viewer = "pdf" /\ loaded /\ pending = {} /\ HasPageImage(currentPage)) =>
        shown = currentPage

\* C20: for every page number k >= 1, four-digit numbers included, the
\* path loadPage(k) requests is the path convert_pdf_to_images wrote page
\* k to, and its file name is page_ + the digits of k padded to three + .png.
C20_RequestedIsWritten ==
    page >= 1 =>
        /\ imagePath = img_path
        /\ Len(imagePath) = 2 /\ imagePath[1] = ImagesName
        /\ IsPageName(imagePath[2], page)

\* C20 witness: a page number of four digits.
C20_Witness ==
    /\ page = 1000
    /\ imagePath = <<ImagesName, <<"page_", "1", "0", "0", "0", Dot, "png">> >>

\* Whether the entry named file of directory t is an archive of the
\* script: a regular file called <prefix>...zip.
NamedLikeArchive(t, file) ==
    /\ <<file>> \in DOMAIN t /\ t[<<file>>] = "file"
    /\ Head(file) = ArchivePrefix
    /\ SubSeq(file, Len(file) - 1, Len(file)) = <<Dot, "zip">>

\* C15: delete_old_archives removes the regular files of the current
\* directory named <prefix>...zip, except those whose removal raised,
\* removes nothing else and returns the number it removed; when no
\* removal raised, the only such file after the script has finished is
\* the archive create_archive made.
C15_OldArchivesPurged ==
    [][/\ (arc_pc = "start" /\ arc_pc' = "deleted") =>
            LET gone == DOMAIN tree \ DOMAIN tree'
            IN  /\ gone = {<<file>> : file \in
                            {g \in Listdir(tree) : NamedLikeArchive(tree, g) /\ g \notin failed'}}
                /\ \A q \in DOMAIN tree' : q \in DOMAIN tree /\ tree'[q] = tree[q]
                /\ deleted_count' = Cardinality(gone)
                /\ \A g \in failed' : NamedLikeArchive(tree', g)
       /\ (arc_pc' = "done" /\ failed' = {}) =>
            {g \in Listdir(tree') : NamedLikeArchive(tree', g)} = {archive_name'}]_vars

\* C15 witness: two old archives were removed and the new one made, beside
\* another zip file and an archive in a sub-directory that both stayed.
C15_Witness ==
    /\ arc_pc = "done" /\ deleted_count = 2 /\ failed = {}
    /\ <<(<<"other", Dot, "zip">>)>> \in DOMAIN tree
    /\ << <<"sub">>, ArchiveName("t1") >> \in DOMAIN tree
    /\ <<archive_name>> \in DOMAIN tree

\* C16: the archive create_archive wrote holds, under its relative path,
\* every file below the current directory except the script itself and
\* the files whose name ends in .zip, and nothing else.
C16_ArchiveHoldsProject ==
    arc_pc = "done" =>
        zip_names = {q \in DOMAIN tree :
                        /\ tree[q] = "file"
                        /\ q # <<ScriptName>>
                        /\ SubSeq(q[Len(q)], Len(q[Len(q)]) - 1, Len(q[Len(q)])) # <<Dot, "zip">>}

\* Whether a fetch with this outcome failed: requests.get gave no answer
\* in time, or raise_for_status() found an error status.
FetchFailed(outcome) == outcome.kind \in {"timeout", "http_error"}

\* C17: in the map script, once a fetch has failed or timed out, it was
\* the last fetch of the run, no output path has got a map image from this
\* run, and the run ends reporting failure.
C17_FetchFailureFailsAll ==
    (\E i \in 1..Len(fetches) : FetchFailed(fetches[i])) =>
        /\ \A i \in 1..Len(fetches) : FetchFailed(fetches[i]) => i = Len(fetches)
        /\ \A q \in DOMAIN maps : maps[q] = <<"map", "old">>
        /\ map_pc = "done" => map_report = "failed"

\* C21: a batch driver started while its source folder does not exist
\* reports that, returns without an exception leaving it, converts
\* nothing and leaves the file system as it was: the output folder is not
\* created.
C21_MissingFolderReported ==
    [][(runs' = runs + 1 /\ listed' = 0 - 1) =>
         /\ pc' = "idle"
         /\ report'.kind = "no_folder"
         /\ attempts' = <<>>
         /\ fs' = fs]_vars

\* Whether the name of the i-th feature contains the highlighted name.
Highlighted(i) == "Luzhou" \in {features[i].name[k] : k \in 1..Len(features[i].name)}

\* The number of features before the i-th that are not highlighted.
OthersBefore(i) == Cardinality({k \in 1..(i - 1) : ~Highlighted(k)})

\* C22: in the drawing loop every fill of a highlighted feature has the
\* highlight colour and every fill of the j-th other feature (from 0) has
\* city_colors[j mod 21]; polygons and multi-polygons are filled;
\* color_index counts the other features only; and the city_count
\* printed after the loop is the number of features.
C22_ColoursAndCount ==
    /\ \A c \in 1..Len(fills) :
         LET i == fills[c].feature
         IN  /\ i \in 1..city_count
             /\ fills[c].color = IF Highlighted(i) THEN <<255, 82, 82>>
                                  ELSE city_colors[(OthersBefore(i) % 21) + 1]
    /\ \A i \in 1..city_count :
         features[i].geometry \in {"Polygon", "MultiPolygon"}
            => \E c \in 1..Len(fills) : fills[c].feature = i
    /\ draw_pc = "loop" => color_index = OthersBefore(feat_idx)
    /\ draw_pc = "done" =>
         /\ city_count = Len(features)
         /\ color_index = OthersBefore(Len(features) + 1)

\* C22 witness: a map of more than 21 other cities drawn, with a
\* highlighted city among them and the colours used a second time after it.
C22_Witness ==
    /\ draw_pc = "done" /\ color_index > 21
    /\ \E i \in 2..(Len(features) - 1) : Highlighted(i) /\ OthersBefore(i) >= 21
    /\ fills[Len(fills)].color = city_colors[((color_index - 1) % 21) + 1]

====
